---- MODULE Spec2Model ----
(***************************************************************************)
(* Model of the vacancy tracker (src/main.go): the record store            *)
(* (allVacancies + allVacanciesMutex), the local filter/sort view          *)
(* (performSearch, VacancyModel.Sort), the online search client            *)
(* (searchVacanciesJooble) and the search task orchestrator                *)
(* (switchToOnlineSearchMode / switchToLocalMode).                         *)
(*                                                                         *)
(* Strings are sequences of code points, so that ToLower, EqualFold,       *)
(* TrimSpace, Contains and the lexicographic order are computed and not    *)
(* assumed.                                                                *)
(***************************************************************************)
EXTENDS Integers, Sequences, FiniteSets, TLC

\* ------------------------------------------------------------------------
\* Bounds of the model
\* ------------------------------------------------------------------------
\* online search invocations in Spec, in SpecRestart and in FairSpec
MaxSearches == 2
MaxRestarts == 3
MaxFairSearches == 1
\* background search goroutines alive at the same time
MaxInFlight == 2
\* records in the store, background saves waiting, queued message callbacks
MaxStore == 2
MaxSavers == 1
MaxQueue == 1

\* ------------------------------------------------------------------------
\* Strings
\* ------------------------------------------------------------------------
StrEmpty == <<>>
StrA == <<97>>
StrUpA == <<65>>
StrB == <<98>>
StrX == <<120>>
StrUpX == <<88>>
StrSpA == <<32, 97>>
StrSpace == <<32>>
StrURL == <<117>>

\* strings.ToLower on one code point: ASCII A-Z and Cyrillic capital letters
ToLowerCh(c) ==
  IF (c >= 65 /\ c <= 90) \/ (c >= 1040 /\ c <= 1071) THEN c + 32 ELSE c

ToLower(s) == [i \in 1..Len(s) |-> ToLowerCh(s[i])]

\* strings.EqualFold: equality under simple case folding
EqualFold(s, t) ==
  /\ Len(s) = Len(t)
  /\ \A i \in 1..Len(s) : ToLowerCh(s[i]) = ToLowerCh(t[i])

\* Go's < on strings: lexicographic, a proper prefix is smaller
StrLess(s, t) ==
  \E i \in 1..Len(t) :
    /\ \A j \in 1..(i - 1) : j <= Len(s) /\ s[j] = t[j]
    /\ (i > Len(s) \/ s[i] < t[i])

\* strings.Contains
Contains(s, sub) ==
  \E i \in 0..(Len(s) - Len(sub)) :
    \A j \in 1..Len(sub) : s[i + j] = sub[j]

RECURSIVE TrimLeft(_)
TrimLeft(s) == IF s # <<>> /\ Head(s) = 32 THEN TrimLeft(Tail(s)) ELSE s

RECURSIVE TrimRight(_)
TrimRight(s) ==
  IF s # <<>> /\ s[Len(s)] = 32 THEN TrimRight(SubSeq(s, 1, Len(s) - 1)) ELSE s

\* strings.TrimSpace
TrimSpace(s) == TrimRight(TrimLeft(s))

\* ------------------------------------------------------------------------
\* Records
\* ------------------------------------------------------------------------
\* possibleStatuses / possibleExperienceLevels: the first letters (Cyrillic
\* code points) of the first enumerated values; index 1 is the default
possibleStatuses == << <<1053>>, <<1055>>, <<1054>> >>
possibleExperienceLevels == << <<1053, 1077>>, <<1041>> >>

\* searchFields (the labels are rendered in ASCII)
searchFields ==
  << "everywhere", "title", "company", "description",
     "keywords", "status", "experience" >>

Vacancy(title, company, status) ==
  [ Title |-> title, Company |-> company, Description |-> StrEmpty,
    Keywords |-> <<>>, SourceURL |-> StrEmpty, Status |-> status,
    ExperienceLevel |-> possibleExperienceLevels[1], Notes |-> StrEmpty ]

SameKey(v, w) == EqualFold(v.Title, w.Title) /\ EqualFold(v.Company, w.Company)

\* ------------------------------------------------------------------------
\* VacancyModel.Sort
\* ------------------------------------------------------------------------
SortAscending == "asc"
SortDescending == "desc"

\* a Less that compares the keys as they are written, without ToLower
LessCaseSensitive(a, b, col, order) ==
  LET less == CASE col = 0 -> StrLess(a.Title, b.Title)
                [] col = 1 -> StrLess(a.Company, b.Company)
                [] col = 2 -> StrLess(a.Status, b.Status)
                [] OTHER -> StrLess(a.Title, b.Title)
  IN IF order = SortDescending THEN ~less ELSE less

\* VacancyModel.Less on two items: the key is chosen by sortColumn (0 title,
\* 1 company, 2 status, anything else title) and compared in lower case;
\* descending negates the result.
Less(a, b, col, order) ==
  LET less == CASE col = 0 -> StrLess(ToLower(a.Title), ToLower(b.Title))
                [] col = 1 -> StrLess(ToLower(a.Company), ToLower(b.Company))
                [] col = 2 -> StrLess(ToLower(a.Status), ToLower(b.Status))
                [] OTHER -> StrLess(ToLower(a.Title), ToLower(b.Title))
  IN IF order = SortDescending THEN ~less ELSE less

Swap(items, i, j) == [items EXCEPT ![i] = items[j], ![j] = items[i]]

\* inner loop of the insertion sort: for j := i; j > a && Less(j, j-1); j--
RECURSIVE SinkDown(_, _, _, _)
SinkDown(items, j, col, order) ==
  IF j > 1 /\ Less(items[j], items[j - 1], col, order)
  THEN SinkDown(Swap(items, j, j - 1), j - 1, col, order)
  ELSE items

\* outer loop: for i := a + 1; i < b; i++
RECURSIVE InsertionSort(_, _, _, _)
InsertionSort(items, i, col, order) ==
  IF i > Len(items) THEN items
  ELSE InsertionSort(SinkDown(items, i, col, order), i + 1, col, order)

\* sort.SliceStable(m.items, m.Less): below 20 elements the library runs one
\* insertion sort over the whole slice
Sort(items, col, order) == InsertionSort(items, 2, col, order)

\* ------------------------------------------------------------------------
\* performSearch: the filter
\* ------------------------------------------------------------------------
AnyKeywordContains(kws, term) ==
  \E i \in 1..Len(kws) : Contains(ToLower(kws[i]), term)

\* a matchField that looks for a substring whatever the selector
matchFieldSubstring(fieldValue, searchInField, searchTerm) ==
  Contains(ToLower(fieldValue), searchTerm)

\* matchField closure
matchField(fieldValue, searchInField, searchTerm) ==
  IF searchInField = "status" \/ searchInField = "experience"
  THEN EqualFold(fieldValue, searchTerm)
  ELSE Contains(ToLower(fieldValue), searchTerm)

\* the switch with the keywords left out of the default branch
FoundWithoutKeywords(v, searchInField, searchTerm) ==
  CASE searchInField = "title" -> matchField(v.Title, searchInField, searchTerm)
    [] searchInField = "company" -> matchField(v.Company, searchInField, searchTerm)
    [] searchInField = "description" ->
         matchField(v.Description, searchInField, searchTerm)
    [] searchInField = "keywords" -> AnyKeywordContains(v.Keywords, searchTerm)
    [] searchInField = "status" -> matchField(v.Status, searchInField, searchTerm)
    [] searchInField = "experience" ->
         matchField(v.ExperienceLevel, searchInField, searchTerm)
    [] OTHER ->
         \/ Contains(ToLower(v.Title), searchTerm)
         \/ Contains(ToLower(v.Company), searchTerm)
         \/ Contains(ToLower(v.Description), searchTerm)
         \/ Contains(ToLower(v.Status), searchTerm)
         \/ Contains(ToLower(v.ExperienceLevel), searchTerm)

\* the switch over searchInField for one record
Found(v, searchInField, searchTerm) ==
  CASE searchInField = "title" -> matchField(v.Title, searchInField, searchTerm)
    [] searchInField = "company" -> matchField(v.Company, searchInField, searchTerm)
    [] searchInField = "description" ->
         matchField(v.Description, searchInField, searchTerm)
    [] searchInField = "keywords" -> AnyKeywordContains(v.Keywords, searchTerm)
    [] searchInField = "status" -> matchField(v.Status, searchInField, searchTerm)
    [] searchInField = "experience" ->
         matchField(v.ExperienceLevel, searchInField, searchTerm)
    [] OTHER ->
         \/ Contains(ToLower(v.Title), searchTerm)
         \/ Contains(ToLower(v.Company), searchTerm)
         \/ Contains(ToLower(v.Description), searchTerm)
         \/ Contains(ToLower(v.Status), searchTerm)
         \/ Contains(ToLower(v.ExperienceLevel), searchTerm)
         \/ AnyKeywordContains(v.Keywords, searchTerm)

\* a loop that puts each record found in front of those found before it
RECURSIVE FilterLoopPrepending(_, _, _)
FilterLoopPrepending(vs, searchInField, searchTerm) ==
  IF vs = <<>> THEN <<>>
  ELSE FilterLoopPrepending(Tail(vs), searchInField, searchTerm)
       \o (IF Found(Head(vs), searchInField, searchTerm) THEN <<Head(vs)>> ELSE <<>>)

\* the loop "for _, v := range currentSearchVacancies": append when found
RECURSIVE FilterLoop(_, _, _)
FilterLoop(vs, searchInField, searchTerm) ==
  IF vs = <<>> THEN <<>>
  ELSE (IF Found(Head(vs), searchInField, searchTerm) THEN <<Head(vs)>> ELSE <<>>)
       \o FilterLoop(Tail(vs), searchInField, searchTerm)

\* the widgets performSearch reads: searchFieldCB.CurrentIndex() (0-based,
\* -1 when nothing is selected), searchEdit.Text(), statusFilterCB.Text(),
\* experienceFilterCB.Text()
Query(idx, text, statusText, expText) ==
  [ fieldIndex |-> idx, searchEdit |-> text,
    statusFilterCB |-> statusText, experienceFilterCB |-> expText ]

SearchInField(q) ==
  IF q.fieldIndex >= 0 /\ q.fieldIndex < Len(searchFields)
  THEN searchFields[q.fieldIndex + 1] ELSE "everywhere"

SearchTerm(q) ==
  ToLower(CASE SearchInField(q) = "status" -> q.statusFilterCB
            [] SearchInField(q) = "experience" -> q.experienceFilterCB
            [] OTHER -> q.searchEdit)

\* performSearch without the return-everything branch: the loop runs for an
\* empty term as well
PerformSearchItemsAlwaysFiltering(snapshot, q, col, order) ==
  Sort(FilterLoop(snapshot, SearchInField(q), SearchTerm(q)), col, order)

\* the items performSearch leaves in vacancyModel: filter of the snapshot,
\* then Sort with the model's current column and order
PerformSearchItems(snapshot, q, col, order) ==
  LET searchInField == SearchInField(q)
      searchTerm == SearchTerm(q)
      filtered ==
        IF searchTerm = <<>> /\ searchInField # "experience"
                            /\ searchInField # "status"
        THEN snapshot
        ELSE FilterLoop(snapshot, searchInField, searchTerm)
  IN Sort(filtered, col, order)

\* a lookup that compares Title and Company with ==
findVacancyIndexInAllExtCaseSensitive(all, title, company) ==
  IF \E i \in 1..Len(all) : all[i].Title = title /\ all[i].Company = company
  THEN CHOOSE i \in 1..Len(all) :
         /\ all[i].Title = title /\ all[i].Company = company
         /\ \A j \in 1..(i - 1) : ~(all[j].Title = title /\ all[j].Company = company)
  ELSE 0

\* findVacancyIndexInAllExt: first index with the same key, 0 for -1
findVacancyIndexInAllExt(all, title, company) ==
  IF \E i \in 1..Len(all) :
       EqualFold(all[i].Title, title) /\ EqualFold(all[i].Company, company)
  THEN CHOOSE i \in 1..Len(all) :
         /\ EqualFold(all[i].Title, title) /\ EqualFold(all[i].Company, company)
         /\ \A j \in 1..(i - 1) :
              ~(EqualFold(all[j].Title, title) /\ EqualFold(all[j].Company, company))
  ELSE 0

\* ------------------------------------------------------------------------
\* State
\* ------------------------------------------------------------------------
VARIABLES
  allVacancies,        \* the record collection (global slice)
  mutex,               \* holder of allVacanciesMutex: "free", "ui" or "saver"
  savers,              \* background saveVacancies goroutines waiting for the lock
  lastAccess,          \* the latest access to allVacancies: who, and under the lock?
  vacancyModel,        \* items, sortColumn, sortOrder of the local table model
  onlineItems,         \* onlineVacancyModel.items
  onlineResultsLabel,  \* text of the status label of the online view
  ui,                  \* visibility / enabled state of containers and buttons
  uiPc,                \* position of the foreground (UI) goroutine
  msgBox,              \* the latest message box shown
  nSearch,             \* number of accepted online search invocations
  cancelChan,          \* cancelChan[k]: "open" or "closed" (channel of invocation k)
  closePanic,          \* a close of an already closed channel happened
  ctxDone,             \* ctxDone[k]: the request context of invocation k is cancelled
                       \* (by the watcher goroutine or by the deferred cancelRequest)
  task,                \* task[k]: the background goroutine of invocation k
  syncQueue,           \* callbacks handed to MainWindow.Synchronize, in order;
                       \* "latest" notes the newest invocation at the handoff
  outcome              \* outcome[k]: what the foreground applied for invocation k

vars ==
  << allVacancies, mutex, savers, lastAccess, vacancyModel, onlineItems,
     onlineResultsLabel, ui, uiPc, msgBox, nSearch, cancelChan, closePanic,
     ctxDone, task, syncQueue, outcome >>

storeVars == << allVacancies, mutex, savers, lastAccess, vacancyModel >>
searchVars == << nSearch, cancelChan, closePanic, ctxDone, task,
                 syncQueue, outcome >>

Searches == 1..(IF MaxRestarts > MaxSearches THEN MaxRestarts ELSE MaxSearches)

\* ------------------------------------------------------------------------
\* Inputs
\* ------------------------------------------------------------------------
VA == Vacancy(StrA, StrX, possibleStatuses[1])
VB == Vacancy(StrB, StrX, possibleStatuses[2])

\* contents of vacancies.json read by loadVacancies
InitialStores == { <<>>, <<VA>>, <<VB, VA>> }

\* text typed into searchEdit
Terms == { StrEmpty, StrA }

\* what the user has set in the search widgets when performSearch runs
Queries ==
  { Query(0, StrEmpty, possibleStatuses[1], possibleExperienceLevels[1]),
    Query(1, StrA, possibleStatuses[1], possibleExperienceLevels[1]) }

\* the search widgets while the online view is shown: searchEdit still holds
\* the term of the online search
OnlineQueries ==
  { Query(0, StrA, possibleStatuses[1], possibleExperienceLevels[1]) }

\* upstream jobs (JoobleJob: title, company, snippet, link)
Job(title, company, link) ==
  [ Title |-> title, Company |-> company, Snippet |-> StrEmpty, Link |-> link ]

JobUpA == Job(StrUpA, StrUpX, StrURL)
JobB == Job(StrB, StrX, StrURL)
JobNoLink == Job(StrA, StrUpX, StrEmpty)
JobNoTitle == Job(StrEmpty, StrX, StrURL)

JobLists == { <<>>, <<JobB, JobUpA>>, <<JobNoLink, JobB>>, <<JobNoTitle>> }

\* response bodies: undecodable, or a JoobleResponse with or without "error"
Body(valid, apiError, jobs) == [ valid |-> valid, error |-> apiError, jobs |-> jobs ]

Bodies ==
  { Body(FALSE, FALSE, <<>>), Body(TRUE, TRUE, <<JobB>>) }
  \cup { Body(TRUE, FALSE, jl) : jl \in JobLists }

StatusOK == 200
HttpStatuses == { StatusOK, 500 }

\* ------------------------------------------------------------------------
\* Initial state: loadVacancies has run, main() is about to build the window
\* ------------------------------------------------------------------------
\* "sent" counts the calls of client.Do made by the client of the invocation;
\* "watcher" is the goroutine started by the client: "none", "waiting" in its
\* select, "exited"
IdleTask ==
  [ pc |-> "none", term |-> StrEmpty, jobs |-> <<>>, i |-> 0,
    vacancies |-> <<>>, err |-> "nil", resp |-> "none", sent |-> 0,
    watcher |-> "none" ]

InitUI ==
  [ localVisible |-> TRUE, cancelVisible |-> FALSE, cancelEnabled |-> TRUE,
    cancelText |-> "cancel", backEnabled |-> TRUE, addEnabled |-> TRUE,
    editEnabled |-> TRUE, deleteEnabled |-> TRUE, searchEnabled |-> TRUE,
    onlineSearchEnabled |-> TRUE ]

\* the search widgets as the window declares them: "everywhere", no text
InitialQuery == Query(0, StrEmpty, possibleStatuses[1], possibleExperienceLevels[1])

\* the table model before main() fills it.  "shared" tells whether items is
\* the slice allVacancies itself; "query" is what performSearch last read from
\* the search widgets and "by" the operation that last wrote items.
InitialModel ==
  [ items |-> <<>>, sortColumn |-> 0, sortOrder |-> SortAscending,
    shared |-> FALSE, query |-> InitialQuery, by |-> "none" ]

Init ==
  /\ allVacancies \in InitialStores
  /\ mutex = "free"
  /\ savers = 0
  /\ lastAccess = [ op |-> "any", locked |-> TRUE, holder |-> "free" ]
  /\ vacancyModel = InitialModel
  /\ onlineItems = <<>>
  /\ onlineResultsLabel = [ text |-> "results", n |-> 0 ]
  /\ ui = InitUI
  /\ uiPc = [ pc |-> "startup", idx |-> 0 ]
  /\ msgBox = "none"
  /\ nSearch = 0
  /\ cancelChan = [ k \in Searches |-> "none" ]
  /\ closePanic = FALSE
  /\ ctxDone = [ k \in Searches |-> FALSE ]
  /\ task = [ k \in Searches |-> IdleTask ]
  /\ syncQueue = <<>>
  /\ outcome = [ k \in Searches |-> "none" ]

Idle == [ pc |-> "idle", idx |-> 0 ]

\* an access to allVacancies by the foreground goroutine without the lock
Unlocked(op) == [ op |-> op, locked |-> FALSE, holder |-> mutex ]
\* an access made between Lock and Unlock by the goroutine that took the lock
Locked(op) == [ op |-> "any", locked |-> TRUE, holder |-> "free" ]

\* ------------------------------------------------------------------------
\* main(): NewVacancyModel(allVacancies) shares the slice with the store, the
\* first Sort therefore sorts the store itself
\* ------------------------------------------------------------------------
Main ==
  /\ msgBox' = "none"
  /\ uiPc.pc = "startup"
  /\ allVacancies' = Sort(allVacancies, 0, SortAscending)
  /\ vacancyModel' = [ items |-> allVacancies', sortColumn |-> 0,
                       sortOrder |-> SortAscending, shared |-> TRUE,
                       query |-> InitialQuery, by |-> "NewVacancyModel" ]
  /\ lastAccess' = Unlocked("main")
  /\ uiPc' = Idle
  /\ UNCHANGED << mutex, savers, onlineItems, onlineResultsLabel, ui >>
  /\ UNCHANGED searchVars

\* ------------------------------------------------------------------------
\* performSearch as run by the foreground (snapshot under the lock)
\* ------------------------------------------------------------------------
PerformSearchModel(q) ==
  [ items |-> PerformSearchItems(allVacancies', q, vacancyModel.sortColumn,
                                 vacancyModel.sortOrder),
    sortColumn |-> vacancyModel.sortColumn,
    sortOrder |-> vacancyModel.sortOrder,
    shared |-> FALSE, query |-> q, by |-> "performSearch" ]

\* allVacanciesMutex as the foreground leaves it after the Lock and Unlock
\* calls of a path, in the order the path makes them.  The foreground gets
\* the lock when it is free; Unlock frees it.
RECURSIVE RunLocks(_, _)
RunLocks(m, ops) ==
  IF ops = <<>> THEN m
  ELSE RunLocks(IF Head(ops) = "Lock" THEN "ui" ELSE "free", Tail(ops))

\* performSearch: Lock, copy of allVacancies, Unlock
performSearchLocks == << "Lock", "Unlock" >>

\* saveVacancies: Lock, deferred Unlock on both returns
saveVacanciesLocks == << "Lock", "Unlock" >>

\* saveVacancyDetails: Lock, then Unlock before the message of the branch
\* "originalIndexInAll == -1", or Unlock after the update and performSearch
saveVacancyDetailsLocks(found) ==
  IF found THEN << "Lock", "Unlock" >> \o performSearchLocks
  ELSE << "Lock", "Unlock" >>

\* a deduplication whose branch "case <-ch" returns without Unlock
DedupLocksHeldOnCancel(cancelled) ==
  IF cancelled THEN << "Lock" >> ELSE << "Lock", "Unlock" >>

\* deduplication in the outcome callback: Lock, then Unlock in the branch
\* "case <-ch" of the loop or Unlock after the loop
DedupLocks(cancelled) ==
  IF cancelled THEN << "Lock", "Unlock" >> ELSE << "Lock", "Unlock" >>

\* the search button (OnClicked: app.performSearch)
performSearch(q) ==
  /\ msgBox' = "none"
  /\ uiPc.pc = "idle"
  /\ ui.searchEnabled
  /\ mutex = "free"
  /\ allVacancies' = allVacancies
  /\ vacancyModel' = PerformSearchModel(q)
  /\ lastAccess' = Locked("performSearch")
  /\ mutex' = RunLocks(mutex, performSearchLocks)
  /\ UNCHANGED << savers, onlineItems, onlineResultsLabel, ui, uiPc >>
  /\ UNCHANGED searchVars

\* ------------------------------------------------------------------------
\* Cancellation signal
\* ------------------------------------------------------------------------
\* close(cancelChan): closing a closed channel panics
CloseChan(st, k) ==
  [ chans |-> [st.chans EXCEPT ![k] = "closed"],
    panic |-> st.panic \/ st.chans[k] = "closed" ]

\* a cancel handler that closes without looking at the channel first
cancelClickedHandlerNoSelect(st, k) == CloseChan(st, k)

\* select { case <-cancelChan: default: close(cancelChan) } of the handler
\* attached to cancelOnlineSearchButton by invocation k
cancelClickedHandler(st, k) ==
  IF st.chans[k] = "closed" THEN st ELSE CloseChan(st, k)

\* the same select in the handler attached to backToLocalButton
backClickedHandler(st, k) ==
  IF st.chans[k] = "closed" THEN st ELSE CloseChan(st, k)

\* Clicked() runs every attached handler in the order of attachment; the
\* handlers of invocations 1..nSearch stay attached for ever
RECURSIVE RunCancelHandlers(_, _, _)
RunCancelHandlers(st, k, n) ==
  IF k > n THEN st ELSE RunCancelHandlers(cancelClickedHandler(st, k), k + 1, n)

RECURSIVE RunBackHandlers(_, _, _)
RunBackHandlers(st, k, n) ==
  IF k > n THEN st ELSE RunBackHandlers(backClickedHandler(st, k), k + 1, n)

ChanState == [ chans |-> cancelChan, panic |-> closePanic ]

\* ------------------------------------------------------------------------
\* switchToLocalMode / switchToOnlineSearchMode
\* ------------------------------------------------------------------------
SwitchToLocalUI(u) ==
  [ u EXCEPT !.localVisible = TRUE, !.cancelVisible = FALSE,
             !.addEnabled = TRUE, !.editEnabled = TRUE, !.deleteEnabled = TRUE,
             !.searchEnabled = TRUE, !.onlineSearchEnabled = TRUE ]

SwitchToOnlineUI(u) ==
  [ u EXCEPT !.localVisible = FALSE, !.cancelVisible = TRUE,
             !.cancelEnabled = TRUE, !.cancelText = "cancel",
             !.backEnabled = TRUE,
             !.addEnabled = FALSE, !.editEnabled = FALSE, !.deleteEnabled = FALSE,
             !.searchEnabled = FALSE, !.onlineSearchEnabled = FALSE ]

\* invocations whose background goroutine has not finished
InFlight == { k \in Searches : task[k].pc \notin { "none", "Done" } }

\* online search button with an empty searchEdit: message box, nothing else
switchToOnlineSearchModeEmpty ==
  /\ uiPc.pc = "idle"
  /\ ui.onlineSearchEnabled
  /\ msgBox' = "enterSearchText"
  /\ UNCHANGED << onlineItems, onlineResultsLabel, ui, uiPc >>
  /\ UNCHANGED storeVars
  /\ UNCHANGED searchVars

\* the same handler without the check of searchEdit.Text() against ""
switchToOnlineSearchModeNoCheck(term, max) ==
  /\ msgBox' = "none"
  /\ uiPc.pc = "idle"
  /\ ui.onlineSearchEnabled
  /\ nSearch < max
  /\ Cardinality(InFlight) < MaxInFlight
  /\ LET k == nSearch + 1 IN
       /\ nSearch' = k
       /\ cancelChan' = [cancelChan EXCEPT ![k] = "open"]
       /\ task' = [task EXCEPT ![k] = [IdleTask EXCEPT !.pc = "Do", !.term = term, !.sent = 1,
                                         !.watcher = "waiting"]]
  /\ ui' = SwitchToOnlineUI(ui)
  /\ onlineItems' = <<>>
  /\ onlineResultsLabel' = [ text |-> "searching", n |-> 0 ]
  /\ UNCHANGED << uiPc, closePanic, ctxDone, syncQueue, outcome >>
  /\ UNCHANGED storeVars

\* online search button with a term: fresh channel, handlers attached, buttons
\* switched, result list reset, background goroutine started with the term
\* (which calls searchVacanciesJooble: watcher goroutine started, request sent)
switchToOnlineSearchMode(term, max) ==
  /\ msgBox' = "none"
  /\ uiPc.pc = "idle"
  /\ ui.onlineSearchEnabled
  /\ term # StrEmpty
  /\ nSearch < max
  /\ Cardinality(InFlight) < MaxInFlight
  /\ LET k == nSearch + 1 IN
       /\ nSearch' = k
       /\ cancelChan' = [cancelChan EXCEPT ![k] = "open"]
       /\ task' = [task EXCEPT ![k] = [IdleTask EXCEPT !.pc = "Do", !.term = term, !.sent = 1,
                                         !.watcher = "waiting"]]
  /\ ui' = SwitchToOnlineUI(ui)
  /\ onlineItems' = <<>>
  /\ onlineResultsLabel' = [ text |-> "searching", n |-> 0 ]
  /\ UNCHANGED << uiPc, closePanic, ctxDone, syncQueue, outcome >>
  /\ UNCHANGED storeVars

\* click on the cancel button: all attached handlers run
cancelClicked ==
  /\ msgBox' = "none"
  /\ uiPc.pc = "idle"
  /\ ~ui.localVisible /\ ui.cancelVisible /\ ui.cancelEnabled
  /\ LET st == RunCancelHandlers(ChanState, 1, nSearch) IN
       /\ cancelChan' = st.chans
       /\ closePanic' = st.panic
  /\ ui' = [ui EXCEPT !.cancelEnabled = FALSE, !.cancelText = "cancelling"]
  /\ UNCHANGED << onlineItems, onlineResultsLabel, uiPc, nSearch,
                  ctxDone, task, syncQueue, outcome >>
  /\ UNCHANGED storeVars

\* click on the back button: the declared OnClicked
\* (switchToLocalMode) runs, then every attached handler closes its channel and
\* calls switchToLocalMode again; each switchToLocalMode ends in performSearch
backClicked(q) ==
  /\ msgBox' = "none"
  /\ uiPc.pc = "idle"
  /\ ~ui.localVisible /\ ui.backEnabled
  /\ mutex = "free"
  /\ LET st == RunBackHandlers(ChanState, 1, nSearch) IN
       /\ cancelChan' = st.chans
       /\ closePanic' = st.panic
  /\ ui' = SwitchToLocalUI(ui)
  /\ allVacancies' = allVacancies
  /\ vacancyModel' = PerformSearchModel(q)
  /\ lastAccess' = Locked("performSearch")
  /\ mutex' = RunLocks(mutex, performSearchLocks)
  /\ UNCHANGED << savers, onlineItems, onlineResultsLabel, uiPc,
                  nSearch, ctxDone, task, syncQueue, outcome >>

\* ------------------------------------------------------------------------
\* searchVacanciesJooble, run by the background goroutine of invocation k
\* ------------------------------------------------------------------------
\* return (nil, err) or (vacancies, nil); the deferred cancelRequest() runs
Return(t, vacancies, err) ==
  [ IdleTask EXCEPT !.pc = "Returned", !.term = t.term,
                    !.vacancies = vacancies, !.err = err, !.resp = t.resp,
                    !.sent = t.sent, !.watcher = t.watcher ]

\* a watcher that sees the closed channel and leaves the request context alone
WatcherWithoutCancelRequest(k) ==
  /\ cancelChan[k] = "closed"
  /\ ~ctxDone[k]
  /\ UNCHANGED vars

\* watcher goroutine: select { case <-ch: cancelRequest(); case <-ctx.Done(): }
\* The branch ctx.Done() does nothing, and cancelRequest() on a context that is
\* done does nothing either: the only step of the watcher that changes the
\* program's state is the first cancelRequest() after the channel was closed.
WatcherSeesCancel(k) ==
  /\ cancelChan[k] = "closed"
  /\ ~ctxDone[k]
  /\ ctxDone' = [ctxDone EXCEPT ![k] = TRUE]
  /\ UNCHANGED << onlineItems, onlineResultsLabel, ui, uiPc, msgBox, nSearch,
                  cancelChan, closePanic, task, syncQueue, outcome >>
  /\ UNCHANGED storeVars

\* the watcher leaves its select and ends: after its own cancelRequest() in
\* the branch "case <-ch", or by the branch "case <-ctx.Done()"
WatcherExits(k) ==
  /\ task[k].watcher = "waiting"
  /\ ctxDone[k]
  /\ task' = [task EXCEPT ![k].watcher = "exited"]
  /\ UNCHANGED << onlineItems, onlineResultsLabel, ui, uiPc, msgBox, nSearch,
                  cancelChan, closePanic, ctxDone, syncQueue, outcome >>
  /\ UNCHANGED storeVars

TaskFrame ==
  /\ UNCHANGED << onlineItems, onlineResultsLabel, ui, uiPc, msgBox, nSearch,
                  cancelChan, closePanic, outcome >>
  /\ UNCHANGED storeVars

\* The error values are kept by what the program can tell about them:
\*   "cancelled"        the messages of the cancellation checkpoints
\*   "contextCanceled"  a wrapped transport error whose text contains
\*                      "context canceled"
\*   "failed"           every other error (transport, HTTP status, decoding,
\*                      API error payload)

\* a client that takes allVacanciesMutex when the response arrives and keeps
\* it while the body is read
DoRespondsTakingLock(k) ==
  /\ task[k].pc = "Do"
  /\ cancelChan[k] = "open"
  /\ mutex = "free"
  /\ mutex' = "task"
  /\ task' = [task EXCEPT ![k] = [@ EXCEPT !.pc = "ReadAll"]]
  /\ UNCHANGED << allVacancies, savers, lastAccess, vacancyModel, onlineItems,
                  onlineResultsLabel, ui, uiPc, msgBox, nSearch, cancelChan,
                  closePanic, ctxDone, syncQueue, outcome >>

\* client.Do returns a response (status line and headers have arrived); the
\* checkpoint before reading the body follows
DoResponds(k) ==
  /\ task[k].pc = "Do"
  /\ IF cancelChan[k] = "closed"
     THEN /\ task' = [task EXCEPT ![k] = Return(@, <<>>, "cancelled")]
          /\ ctxDone' = [ctxDone EXCEPT ![k] = TRUE]
     ELSE /\ task' = [task EXCEPT ![k] = [@ EXCEPT !.pc = "ReadAll"]]
          /\ UNCHANGED ctxDone
  /\ UNCHANGED syncQueue
  /\ TaskFrame

\* if err != nil { select { case <-ch: ... default: ctx.Err() ... } }
DoErrCheck(k, err) ==
  IF cancelChan[k] = "closed" THEN "cancelled"
  ELSE IF ctxDone[k] THEN "cancelled" ELSE err

\* a client that sends the request once more after a transport error
DoFailsRetrying(k) ==
  /\ task[k].pc = "Do"
  /\ IF DoErrCheck(k, "failed") = "failed" /\ task[k].sent < 2
     THEN /\ task' = [task EXCEPT ![k].sent = @ + 1]
          /\ UNCHANGED ctxDone
     ELSE /\ task' = [task EXCEPT ![k] = Return(@, <<>>, DoErrCheck(k, "failed"))]
          /\ ctxDone' = [ctxDone EXCEPT ![k] = TRUE]
  /\ UNCHANGED syncQueue
  /\ TaskFrame

\* client.Do returns a transport error
DoFails(k) ==
  /\ task[k].pc = "Do"
  /\ task' = [task EXCEPT ![k] = Return(@, <<>>, DoErrCheck(k, "failed"))]
  /\ ctxDone' = [ctxDone EXCEPT ![k] = TRUE]
  /\ UNCHANGED syncQueue
  /\ TaskFrame

\* client.Do is interrupted by the cancelled request context
DoInterrupted(k) ==
  /\ task[k].pc = "Do"
  /\ ctxDone[k]
  /\ task' = [task EXCEPT ![k] = Return(@, <<>>, DoErrCheck(k, "contextCanceled"))]
  /\ UNCHANGED << ctxDone, syncQueue >>
  /\ TaskFrame

\* a client without "defer cancelRequest()", seen on this return
ReadAllFailsWithoutDefer(k) ==
  /\ task[k].pc = "ReadAll"
  /\ task' = [task EXCEPT ![k] = Return(@, <<>>, "failed")]
  /\ UNCHANGED << ctxDone, syncQueue >>
  /\ TaskFrame

\* io.ReadAll fails on the connection
ReadAllFails(k) ==
  /\ task[k].pc = "ReadAll"
  /\ task' = [task EXCEPT ![k] = Return(@, <<>>, "failed")]
  /\ ctxDone' = [ctxDone EXCEPT ![k] = TRUE]
  /\ UNCHANGED syncQueue
  /\ TaskFrame

\* io.ReadAll is interrupted by the cancelled request context
ReadAllInterrupted(k) ==
  /\ task[k].pc = "ReadAll"
  /\ ctxDone[k]
  /\ task' = [task EXCEPT ![k] = Return(@, <<>>, "contextCanceled")]
  /\ UNCHANGED << ctxDone, syncQueue >>
  /\ TaskFrame

\* a loop body that maps every job, also one without title or link
MapJobWithoutSkip(vacancies, job) ==
  Append(vacancies,
    [ Title |-> job.Title, Company |-> job.Company,
      Description |-> job.Snippet, Keywords |-> <<>>,
      SourceURL |-> job.Link, Status |-> possibleStatuses[1],
      ExperienceLevel |-> possibleExperienceLevels[1], Notes |-> StrEmpty ])

\* one job of the mapping loop body, after its checkpoint
MapJob(vacancies, job) ==
  IF job.Title = StrEmpty \/ job.Link = StrEmpty THEN vacancies
  ELSE Append(vacancies,
         [ Title |-> job.Title, Company |-> job.Company,
           Description |-> job.Snippet, Keywords |-> <<>>,
           SourceURL |-> job.Link, Status |-> possibleStatuses[1],
           ExperienceLevel |-> possibleExperienceLevels[1], Notes |-> StrEmpty ])

\* what the response of the service is to the client: "none" for nothing to
\* complain of (status 200, a body that decodes, no error field),
\* "badWithJobs" (a bad status or an error field in a body that decodes and
\* carries jobs) or "bad"
ResponseClass(status, body) ==
  IF status = StatusOK /\ body.valid /\ ~body.error THEN "none"
  ELSE IF body.valid /\ body.jobs # <<>> THEN "badWithJobs"
  ELSE "bad"

BadResponses == { "bad", "badWithJobs" }

\* a client that does not look at the error field of the decoded body
ReadAllReturnsIgnoringErrorField(k, status, body) ==
  /\ task[k].pc = "ReadAll"
  /\ LET err == IF cancelChan[k] = "closed" THEN "cancelled"
                ELSE IF status # StatusOK THEN "failed"
                ELSE IF ~body.valid THEN "failed"
                ELSE "nil"
         read == [task[k] EXCEPT !.resp = ResponseClass(status, body)]
     IN IF err # "nil" THEN
          /\ task' = [task EXCEPT ![k] = Return(read, <<>>, err)]
          /\ ctxDone' = [ctxDone EXCEPT ![k] = TRUE]
        ELSE IF body.jobs = <<>> THEN
          /\ task' = [task EXCEPT ![k] = Return(read, <<>>, "nil")]
          /\ ctxDone' = [ctxDone EXCEPT ![k] = TRUE]
        ELSE
          /\ task' = [task EXCEPT ![k] =
                        [read EXCEPT !.pc = "MapLoop", !.jobs = body.jobs, !.i = 1]]
          /\ UNCHANGED ctxDone
  /\ UNCHANGED syncQueue
  /\ TaskFrame

\* io.ReadAll returns the body; the checkpoint after it follows, then the
\* status code and the body are looked at: status check, decoding, API error.
\* The field resp remembers a response that makes the client fail; the first
\* callback of the goroutine ("case <-ch") takes nothing over from the client.
ReadAllReturns(k, status, body) ==
  /\ task[k].pc = "ReadAll"
  /\ LET err == IF cancelChan[k] = "closed" THEN "cancelled"
                ELSE IF status # StatusOK THEN "failed"
                ELSE IF ~body.valid THEN "failed"
                ELSE IF body.error THEN "failed"
                ELSE "nil"
         read == [task[k] EXCEPT !.resp = ResponseClass(status, body)]
     IN IF err # "nil" THEN
          /\ task' = [task EXCEPT ![k] = Return(read, <<>>, err)]
          /\ ctxDone' = [ctxDone EXCEPT ![k] = TRUE]
        ELSE IF body.jobs = <<>> THEN
          /\ task' = [task EXCEPT ![k] = Return(read, <<>>, "nil")]
          /\ ctxDone' = [ctxDone EXCEPT ![k] = TRUE]
        ELSE
          /\ task' = [task EXCEPT ![k] =
                        [read EXCEPT !.pc = "MapLoop", !.jobs = body.jobs, !.i = 1]]
          /\ UNCHANGED ctxDone
  /\ UNCHANGED syncQueue
  /\ TaskFrame

\* a mapping loop without the checkpoint at the head of its body
MapLoopStepWithoutCheckpoint(k) ==
  /\ task[k].pc = "MapLoop"
  /\ LET t == task[k]
         vs == MapJob(t.vacancies, t.jobs[t.i])
     IN IF t.i = Len(t.jobs) THEN
          /\ task' = [task EXCEPT ![k] = Return(@, vs, "nil")]
          /\ ctxDone' = [ctxDone EXCEPT ![k] = TRUE]
        ELSE
          /\ task' = [task EXCEPT ![k] = [@ EXCEPT !.i = t.i + 1, !.vacancies = vs]]
          /\ UNCHANGED ctxDone
  /\ UNCHANGED syncQueue
  /\ TaskFrame

\* one iteration of "for _, job := range joobleResp.Jobs"
MapLoopStep(k) ==
  /\ task[k].pc = "MapLoop"
  /\ LET t == task[k]
         vs == MapJob(t.vacancies, t.jobs[t.i])
     IN IF cancelChan[k] = "closed" THEN
          /\ task' = [task EXCEPT ![k] = Return(@, <<>>, "cancelled")]
          /\ ctxDone' = [ctxDone EXCEPT ![k] = TRUE]
        ELSE IF t.i = Len(t.jobs) THEN
          /\ task' = [task EXCEPT ![k] = Return(@, vs, "nil")]
          /\ ctxDone' = [ctxDone EXCEPT ![k] = TRUE]
        ELSE
          /\ task' = [task EXCEPT ![k] = [@ EXCEPT !.i = t.i + 1, !.vacancies = vs]]
          /\ UNCHANGED ctxDone
  /\ UNCHANGED syncQueue
  /\ TaskFrame

\* ------------------------------------------------------------------------
\* The goroutine of switchToOnlineSearchMode after the client returned
\* ------------------------------------------------------------------------
\* the same goroutine with the "return" of the branch "case <-ch" left out: the
\* second Synchronize follows the first
HandoffWithoutReturn(k) ==
  /\ task[k].pc = "Returned"
  /\ LET second == [ k |-> k, latest |-> nSearch, fn |-> "outcome",
                     vacancies |-> task[k].vacancies, err |-> task[k].err,
                     resp |-> task[k].resp ]
         first == [ k |-> k, latest |-> nSearch, fn |-> "cancelled",
                    vacancies |-> <<>>, err |-> "nil", resp |-> "none" ]
     IN syncQueue' = IF cancelChan[k] = "closed"
                     THEN syncQueue \o << first, second >>
                     ELSE Append(syncQueue, second)
  /\ task' = [task EXCEPT ![k] = [IdleTask EXCEPT !.pc = "Done", !.watcher = task[k].watcher]]
  /\ UNCHANGED << ctxDone, onlineItems, onlineResultsLabel, ui, uiPc, msgBox,
                  nSearch, cancelChan, closePanic, outcome >>
  /\ UNCHANGED storeVars

\* the same goroutine reading app.onlineSearchCancelChan, the channel of the
\* newest invocation, in place of its parameter ch
HandoffObservingLatest(k) ==
  /\ task[k].pc = "Returned"
  /\ syncQueue' = Append(syncQueue,
       [ k |-> k, latest |-> nSearch,
         fn |-> IF cancelChan[nSearch] = "closed" THEN "cancelled" ELSE "outcome",
         vacancies |-> IF cancelChan[nSearch] = "closed" THEN <<>>
                       ELSE task[k].vacancies,
         err |-> IF cancelChan[nSearch] = "closed" THEN "nil" ELSE task[k].err,
         resp |-> IF cancelChan[nSearch] = "closed" THEN "none" ELSE task[k].resp ])
  /\ task' = [task EXCEPT ![k] = [IdleTask EXCEPT !.pc = "Done", !.watcher = task[k].watcher]]
  /\ UNCHANGED << ctxDone, onlineItems, onlineResultsLabel, ui, uiPc, msgBox,
                  nSearch, cancelChan, closePanic, outcome >>
  /\ UNCHANGED storeVars

\* the same goroutine setting the label and the buttons itself in the branch
\* "case <-ch", without Synchronize
HandoffApplyingDirectly(k) ==
  /\ task[k].pc = "Returned"
  /\ task' = [task EXCEPT ![k] = [IdleTask EXCEPT !.pc = "Done", !.watcher = task[k].watcher]]
  /\ IF cancelChan[k] = "closed"
     THEN /\ onlineResultsLabel' = [ text |-> "cancelled", n |-> 0 ]
          /\ ui' = [ui EXCEPT !.cancelVisible = FALSE,
                              !.onlineSearchEnabled = TRUE,
                              !.searchEnabled = TRUE]
          /\ outcome' = [outcome EXCEPT ![k] = "Cancelled"]
          /\ UNCHANGED syncQueue
     ELSE /\ syncQueue' = Append(syncQueue,
               [ k |-> k, latest |-> nSearch, fn |-> "outcome",
                 vacancies |-> task[k].vacancies, err |-> task[k].err,
                 resp |-> task[k].resp ])
          /\ UNCHANGED << onlineResultsLabel, ui, outcome >>
  /\ UNCHANGED << ctxDone, onlineItems, uiPc, msgBox, nSearch, cancelChan,
                  closePanic >>
  /\ UNCHANGED storeVars

\* select { case <-ch: Synchronize(cancelled) ; return  default: }
\* Synchronize(outcome)
Handoff(k) ==
  /\ task[k].pc = "Returned"
  /\ syncQueue' = Append(syncQueue,
       [ k |-> k, latest |-> nSearch,
         fn |-> IF cancelChan[k] = "closed" THEN "cancelled" ELSE "outcome",
         vacancies |-> IF cancelChan[k] = "closed" THEN <<>>
                       ELSE task[k].vacancies,
         err |-> IF cancelChan[k] = "closed" THEN "nil" ELSE task[k].err,
         resp |-> IF cancelChan[k] = "closed" THEN "none" ELSE task[k].resp ])
  /\ task' = [task EXCEPT ![k] = [IdleTask EXCEPT !.pc = "Done", !.watcher = task[k].watcher]]
  /\ UNCHANGED ctxDone
  /\ TaskFrame

\* a deduplication loop without the checkpoint on the channel
RECURSIVE DedupLoopWithoutCheckpoint(_, _, _, _)
DedupLoopWithoutCheckpoint(joobleVacancies, all, closed, filtered) ==
  IF joobleVacancies = <<>> THEN [ cancelled |-> FALSE, filtered |-> filtered ]
  ELSE LET onlineV == Head(joobleVacancies)
           foundLocally ==
             \E i \in 1..Len(all) :
               /\ EqualFold(onlineV.Title, all[i].Title)
               /\ EqualFold(onlineV.Company, all[i].Company)
       IN DedupLoopWithoutCheckpoint(Tail(joobleVacancies), all, closed,
                    IF foundLocally THEN filtered ELSE Append(filtered, onlineV))

\* a deduplication loop that compares Title and Company with ==
RECURSIVE DedupLoopCaseSensitive(_, _, _, _)
DedupLoopCaseSensitive(joobleVacancies, all, closed, filtered) ==
  IF joobleVacancies = <<>> THEN [ cancelled |-> FALSE, filtered |-> filtered ]
  ELSE IF closed THEN [ cancelled |-> TRUE, filtered |-> filtered ]
  ELSE LET onlineV == Head(joobleVacancies)
           foundLocally ==
             \E i \in 1..Len(all) :
               /\ onlineV.Title = all[i].Title
               /\ onlineV.Company = all[i].Company
       IN DedupLoopCaseSensitive(Tail(joobleVacancies), all, closed,
                    IF foundLocally THEN filtered ELSE Append(filtered, onlineV))

\* the deduplication loop of the outcome callback: checkpoint, then lookup of
\* the online record in allVacancies by EqualFold on Title and Company
RECURSIVE DedupLoop(_, _, _, _)
DedupLoop(joobleVacancies, all, closed, filtered) ==
  IF joobleVacancies = <<>> THEN [ cancelled |-> FALSE, filtered |-> filtered ]
  ELSE IF closed THEN [ cancelled |-> TRUE, filtered |-> filtered ]
  ELSE LET onlineV == Head(joobleVacancies)
           foundLocally ==
             \E i \in 1..Len(all) :
               /\ EqualFold(onlineV.Title, all[i].Title)
               /\ EqualFold(onlineV.Company, all[i].Company)
       IN DedupLoop(Tail(joobleVacancies), all, closed,
                    IF foundLocally THEN filtered ELSE Append(filtered, onlineV))

\* strings.Contains(err.Error(), "context canceled")
HasContextCanceledText(err) == err = "contextCanceled"

SyncFrame ==
  /\ UNCHANGED << uiPc, nSearch, cancelChan, closePanic, ctxDone, task >>
  /\ UNCHANGED << allVacancies, savers, vacancyModel >>

\* the foreground runs the callback queued by the select branch "case <-ch"
DeliverCancelled ==
  /\ msgBox' = "none"
  /\ uiPc.pc = "idle"
  /\ syncQueue # <<>>
  /\ Head(syncQueue).fn = "cancelled"
  /\ syncQueue' = Tail(syncQueue)
  /\ onlineResultsLabel' = [ text |-> "cancelled", n |-> 0 ]
  /\ ui' = [ui EXCEPT !.cancelVisible = FALSE, !.onlineSearchEnabled = TRUE,
                      !.searchEnabled = TRUE]
  /\ outcome' = [outcome EXCEPT ![Head(syncQueue).k] = "Cancelled"]
  /\ UNCHANGED << onlineItems, lastAccess, mutex >>
  /\ SyncFrame

\* the foreground runs the second callback: buttons, then error or results
DeliverOutcome ==
  /\ uiPc.pc = "idle"
  /\ syncQueue # <<>>
  /\ Head(syncQueue).fn = "outcome"
  /\ LET cb == Head(syncQueue)
         closed == cancelChan[cb.k] = "closed"
         d == DedupLoop(cb.vacancies, allVacancies, closed, <<>>)
     IN /\ syncQueue' = Tail(syncQueue)
        /\ ui' = [ui EXCEPT !.cancelVisible = FALSE, !.onlineSearchEnabled = TRUE,
                            !.searchEnabled = TRUE]
        /\ IF cb.err # "nil" THEN
             IF HasContextCanceledText(cb.err) THEN
               /\ onlineResultsLabel' = [ text |-> "cancelled", n |-> 0 ]
               /\ outcome' = [outcome EXCEPT ![cb.k] = "Cancelled"]
               /\ msgBox' = "none"
               /\ UNCHANGED << onlineItems, lastAccess, mutex >>
             ELSE
               /\ msgBox' = "searchError"
               /\ onlineResultsLabel' = [ text |-> "error", n |-> 0 ]
               /\ outcome' = [outcome EXCEPT ![cb.k] = "Failed"]
               /\ UNCHANGED << onlineItems, lastAccess, mutex >>
           ELSE
             /\ mutex = "free"
             /\ mutex' = RunLocks(mutex, DedupLocks(d.cancelled))
             /\ lastAccess' = Locked("dedup")
             /\ IF d.cancelled THEN
                  /\ onlineResultsLabel' = [ text |-> "cancelledInFilter", n |-> 0 ]
                  /\ outcome' = [outcome EXCEPT ![cb.k] = "Cancelled"]
                  /\ msgBox' = "none"
                  /\ UNCHANGED onlineItems
                ELSE
                  /\ onlineItems' = d.filtered
                  /\ msgBox' = "none"
                  /\ IF Len(d.filtered) = 0 THEN
                       IF closed THEN
                         /\ onlineResultsLabel' = [ text |-> "cancelled", n |-> 0 ]
                         /\ outcome' = [outcome EXCEPT ![cb.k] = "Cancelled"]
                       ELSE
                         /\ onlineResultsLabel' = [ text |-> "noNewResults", n |-> 0 ]
                         /\ outcome' = [outcome EXCEPT ![cb.k] = "Results"]
                     ELSE
                       /\ onlineResultsLabel' =
                            [ text |-> "found", n |-> Len(d.filtered) ]
                       /\ outcome' = [outcome EXCEPT ![cb.k] = "Results"]
  /\ SyncFrame

\* ------------------------------------------------------------------------
\* Record store operations of the foreground
\* ------------------------------------------------------------------------
\* titles / companies typed into the dialog, statuses chosen in the combo box
DialogTitles == { StrEmpty, StrSpace, StrA, StrUpA, StrB, StrSpA }
DialogCompanies == { StrX }
EditTitles == { StrUpA }
EditCompanies == { StrX }
DetailStatuses == { possibleStatuses[1], possibleStatuses[2] }

\* savedVacancy built by the accept button from the dialog fields
SavedVacancy(title, company, status, base) ==
  [ base EXCEPT !.Title = TrimSpace(title), !.Company = TrimSpace(company),
                !.Status = status ]

RemoveAt(seq, i) == SubSeq(seq, 1, i - 1) \o SubSeq(seq, i + 1, Len(seq))

StoreFrame ==
  /\ UNCHANGED << onlineResultsLabel, ui >>
  /\ UNCHANGED searchVars

\* accept button of showVacancyDialogExt(app, &v, false, false), opened by the
\* add button: validation, duplicate lookup and append, all without the lock;
\* saveVacancies() and the caller's performSearch follow in SaveAndRefresh
AddVacancy(title, company) ==
  /\ uiPc.pc = "idle"
  /\ ui.addEnabled
  /\ LET saved == SavedVacancy(title, company, possibleStatuses[1],
                               Vacancy(StrEmpty, StrEmpty, possibleStatuses[1]))
     IN IF saved.Title = StrEmpty THEN
          /\ msgBox' = "emptyTitle"
          /\ UNCHANGED << allVacancies, lastAccess, uiPc >>
        ELSE IF findVacancyIndexInAllExt(allVacancies, saved.Title, saved.Company) # 0
        THEN
          /\ msgBox' = "alreadyExists"
          /\ lastAccess' = Unlocked("findVacancyIndexInAllExt")
          /\ UNCHANGED << allVacancies, uiPc >>
        ELSE
          /\ Len(allVacancies) < MaxStore
          /\ allVacancies' = Append(allVacancies, saved)
          /\ lastAccess' = Unlocked("showVacancyDialogExt")
          /\ uiPc' = [ pc |-> "saveAfterAdd", idx |-> 0 ]
          /\ msgBox' = "none"
  /\ UNCHANGED << mutex, savers, vacancyModel, onlineItems >>
  /\ StoreFrame

\* "add selected to the local list" / item activation in the online table:
\* showVacancyDialogExt(app, &vacancyCopy, false, true), title and company are
\* read-only in the dialog
AddOnlineVacancy(idx) ==
  /\ uiPc.pc = "idle"
  /\ ~ui.localVisible
  /\ idx \in 1..Len(onlineItems)
  /\ LET saved == SavedVacancy(onlineItems[idx].Title, onlineItems[idx].Company,
                               onlineItems[idx].Status, onlineItems[idx])
     IN IF saved.Title = StrEmpty THEN
          /\ msgBox' = "emptyTitle"
          /\ UNCHANGED << allVacancies, lastAccess, uiPc >>
        ELSE IF findVacancyIndexInAllExt(allVacancies, saved.Title, saved.Company) # 0
        THEN
          /\ msgBox' = "alreadyExists"
          /\ lastAccess' = Unlocked("findVacancyIndexInAllExt")
          /\ UNCHANGED << allVacancies, uiPc >>
        ELSE
          /\ Len(allVacancies) < MaxStore
          /\ allVacancies' = Append(allVacancies, saved)
          /\ lastAccess' = Unlocked("showVacancyDialogExt")
          /\ uiPc' = [ pc |-> "saveAfterOnlineAdd", idx |-> idx ]
          /\ msgBox' = "none"
  /\ UNCHANGED << mutex, savers, vacancyModel, onlineItems >>
  /\ StoreFrame

\* showEditVacancyDialog + accept button with isEdit: the record found under
\* the original title and company is overwritten by savedVacancy; no lookup
\* of the new title and company precedes the write.  (The edit button is
\* declared with Visible: false; the handler is the edit operation of the
\* program all the same.)
EditVacancy(idx, title, company) ==
  /\ msgBox' = "none"
  /\ uiPc.pc = "idle"
  /\ ui.editEnabled /\ ui.localVisible
  /\ idx \in 1..Len(vacancyModel.items)
  /\ LET sel == vacancyModel.items[idx]
         originalIndex == findVacancyIndexInAllExt(allVacancies, sel.Title, sel.Company)
     IN /\ originalIndex # 0
        /\ LET saved == SavedVacancy(title, company, allVacancies[originalIndex].Status,
                                     allVacancies[originalIndex])
           IN /\ saved.Title # StrEmpty
              /\ allVacancies' = [allVacancies EXCEPT ![originalIndex] = saved]
  /\ lastAccess' = Unlocked("showVacancyDialogExt")
  /\ uiPc' = [ pc |-> "saveAfterEdit", idx |-> 0 ]
  /\ UNCHANGED << mutex, savers, vacancyModel, onlineItems >>
  /\ StoreFrame

\* confirmDeleteVacancy after the confirmation: lookup and removal without the
\* lock; saveVacancies() and performSearch follow in SaveAndRefresh
confirmDeleteVacancy(idx) ==
  /\ msgBox' = "none"
  /\ uiPc.pc = "idle"
  /\ ui.deleteEnabled /\ ui.localVisible
  /\ idx \in 1..Len(vacancyModel.items)
  /\ LET sel == vacancyModel.items[idx]
         originalIndexInAll ==
           findVacancyIndexInAllExt(allVacancies, sel.Title, sel.Company)
     IN /\ originalIndexInAll # 0
        /\ allVacancies' = RemoveAt(allVacancies, originalIndexInAll)
  /\ lastAccess' = Unlocked("confirmDeleteVacancy")
  /\ uiPc' = [ pc |-> "saveAfterDelete", idx |-> 0 ]
  /\ UNCHANGED << mutex, savers, vacancyModel, onlineItems >>
  /\ StoreFrame

\* The handlers above go on with saveVacancies(), whose Lock() waits while a
\* background save holds the lock: uiPc keeps the foreground at that call and
\* no other handler runs before it returns.  Here the call gets the lock
\* (Lock, marshal, write, Unlock), then the handler ends: performSearch, and
\* for the online dialog the removal of the added row from the online list
SaveAndRefresh(q) ==
  /\ uiPc.pc \in { "saveAfterAdd", "saveAfterOnlineAdd", "saveAfterEdit",
                   "saveAfterDelete" }
  /\ mutex = "free"
  /\ allVacancies' = allVacancies
  /\ lastAccess' = Locked("performSearch")
  /\ vacancyModel' = PerformSearchModel(q)
  /\ onlineItems' = IF uiPc.pc = "saveAfterOnlineAdd"
                    THEN RemoveAt(onlineItems, uiPc.idx) ELSE onlineItems
  /\ msgBox' = IF uiPc.pc = "saveAfterDelete" THEN "deleted" ELSE "none"
  /\ uiPc' = Idle
  /\ mutex' = RunLocks(mutex, saveVacanciesLocks \o performSearchLocks)
  /\ UNCHANGED savers
  /\ StoreFrame

\* saveVacancyDetails: under the lock the record with exactly the title and
\* company of the selected row gets the status of the details panel; when it
\* changed, "go saveVacancies()" is started; after Unlock, performSearch
saveVacancyDetails(idx, newStatus, q) ==
  /\ msgBox' = "none"
  /\ uiPc.pc = "idle"
  /\ ui.localVisible
  /\ idx \in 1..Len(vacancyModel.items)
  /\ mutex = "free"
  /\ Len(syncQueue) < MaxQueue
  /\ LET sel == vacancyModel.items[idx]
         matches == { i \in 1..Len(allVacancies) :
                        /\ allVacancies[i].Title = sel.Title
                        /\ allVacancies[i].Company = sel.Company }
     IN /\ mutex' = RunLocks(mutex, saveVacancyDetailsLocks(matches # {}))
        /\ IF matches = {} THEN
             /\ syncQueue' = Append(syncQueue, [ k |-> 0, latest |-> 0, fn |-> "msgBox",
                                                vacancies |-> <<>>, err |-> "notFound",
                                                resp |-> "none" ])
             /\ lastAccess' = Locked("saveVacancyDetails")
             /\ UNCHANGED << allVacancies, savers, vacancyModel >>
           ELSE
             LET originalIndexInAll == CHOOSE i \in matches : \A j \in matches : i <= j
                 changed == allVacancies[originalIndexInAll].Status # newStatus
             IN /\ changed => savers < MaxSavers
                /\ allVacancies' =
                     [allVacancies EXCEPT ![originalIndexInAll].Status = newStatus]
                /\ savers' = IF changed THEN savers + 1 ELSE savers
                /\ syncQueue' = Append(syncQueue,
                     [ k |-> 0, latest |-> 0, fn |-> "msgBox", vacancies |-> <<>>,
                       err |-> IF changed THEN "saved" ELSE "noChanges",
                       resp |-> "none" ])
                /\ lastAccess' = Locked("performSearch")
                /\ vacancyModel' = PerformSearchModel(q)
  /\ UNCHANGED << onlineItems, onlineResultsLabel, ui, uiPc,
                  nSearch, cancelChan, closePanic, ctxDone, task, outcome >>

\* a callback that only shows a message box
DeliverMsgBox ==
  /\ uiPc.pc = "idle"
  /\ syncQueue # <<>>
  /\ Head(syncQueue).fn = "msgBox"
  /\ syncQueue' = Tail(syncQueue)
  /\ msgBox' = Head(syncQueue).err
  /\ UNCHANGED << onlineItems, onlineResultsLabel, ui, lastAccess, outcome, mutex >>
  /\ SyncFrame

\* background "go saveVacancies()": Lock, read allVacancies (marshal, write file)
SaverLock ==
  /\ savers > 0
  /\ mutex = "free"
  /\ mutex' = "saver"
  /\ savers' = savers - 1
  /\ lastAccess' = Locked("saveVacancies")
  /\ UNCHANGED << allVacancies, vacancyModel, onlineItems, onlineResultsLabel,
                  ui, uiPc, msgBox >>
  /\ UNCHANGED searchVars

\* deferred Unlock of the background saveVacancies
SaverUnlock ==
  /\ mutex = "saver"
  /\ mutex' = "free"
  /\ UNCHANGED << allVacancies, savers, lastAccess, vacancyModel, onlineItems,
                  onlineResultsLabel, ui, uiPc, msgBox >>
  /\ UNCHANGED searchVars

\* click on a column header of the local table: VacancyModel.Sort(col, order);
\* the same column toggles the order, another column starts ascending
SortColumn(col) ==
  /\ msgBox' = "none"
  /\ uiPc.pc = "idle"
  /\ ui.localVisible
  /\ LET order == IF col = vacancyModel.sortColumn
                     /\ vacancyModel.sortOrder = SortAscending
                  THEN SortDescending ELSE SortAscending
         sorted == Sort(vacancyModel.items, col, order)
     IN /\ vacancyModel' = [vacancyModel EXCEPT !.items = sorted,
                              !.sortColumn = col, !.sortOrder = order,
                              !.by = "Sort"]
        /\ IF vacancyModel.shared
           THEN /\ allVacancies' = sorted
                /\ lastAccess' = Unlocked("Sort")
           ELSE UNCHANGED << allVacancies, lastAccess >>
  /\ UNCHANGED << mutex, savers, onlineItems, uiPc >>
  /\ StoreFrame

\* ------------------------------------------------------------------------
\* Specifications
\* ------------------------------------------------------------------------
ClientStep(k) ==
  \/ WatcherSeesCancel(k)
  \/ DoResponds(k)
  \/ DoFails(k)
  \/ DoInterrupted(k)
  \/ ReadAllFails(k)
  \/ ReadAllInterrupted(k)
  \/ \E status \in HttpStatuses, body \in Bodies : ReadAllReturns(k, status, body)
  \/ MapLoopStep(k)

\* the online search: foreground handlers, background goroutines, callbacks;
\* max bounds the number of invocations
NextOf(max) ==
  \/ Main
  \/ switchToOnlineSearchModeEmpty
  \/ \E term \in Terms : switchToOnlineSearchMode(term, max)
  \/ cancelClicked
  \/ \E q \in OnlineQueries : backClicked(q)
  \/ \E k \in Searches : ClientStep(k)
  \/ \E k \in Searches : Handoff(k)
  \/ DeliverCancelled
  \/ DeliverOutcome
  \/ \E idx \in 1..MaxStore : AddOnlineVacancy(idx)
  \/ \E q \in OnlineQueries : SaveAndRefresh(q)

Next == NextOf(MaxSearches)

Spec == Init /\ [][Next]_vars

\* searches restarted after stale deliveries
NextRestart == NextOf(MaxRestarts)

SpecRestart == Init /\ [][NextRestart]_vars

\* Scheduling: every goroutine that can run eventually runs, and the message
\* loop of the foreground eventually runs a queued callback and finishes the
\* handler it is in.  Nothing is assumed about the network: DoResponds,
\* DoFails, ReadAllReturns and ReadAllFails may never happen.
NextFair == NextOf(MaxFairSearches)

Fairness ==
  /\ \A k \in Searches :
       /\ WF_vars(WatcherSeesCancel(k))
       /\ WF_vars(DoInterrupted(k))
       /\ WF_vars(ReadAllInterrupted(k))
       /\ WF_vars(MapLoopStep(k))
       /\ WF_vars(Handoff(k))
  /\ WF_vars(DeliverCancelled)
  /\ WF_vars(DeliverOutcome)
  /\ WF_vars(\E q \in OnlineQueries : SaveAndRefresh(q))

FairSpec == Init /\ [][NextFair]_vars /\ Fairness

\* The same scheduling, and a network whose every exchange ends: client.Do
\* returns a response or an error, io.ReadAll returns the body or an error.
NetworkEnds ==
  \A k \in Searches :
    /\ WF_vars(DoResponds(k) \/ DoFails(k))
    /\ WF_vars(ReadAllFails(k)
               \/ \E status \in HttpStatuses, body \in Bodies :
                    ReadAllReturns(k, status, body))

LiveSpec == Init /\ [][NextFair]_vars /\ Fairness /\ NetworkEnds

\* the online search with the end of the watcher goroutines; only the
\* scheduling of the watcher is assumed
NextWatcher ==
  \/ Main
  \/ \E term \in Terms : switchToOnlineSearchMode(term, MaxFairSearches)
  \/ cancelClicked
  \/ \E q \in OnlineQueries : backClicked(q)
  \/ \E k \in Searches : ClientStep(k)
  \/ \E k \in Searches : Handoff(k)
  \/ DeliverCancelled
  \/ DeliverOutcome
  \/ \E k \in Searches : WatcherExits(k)

FairWatcher ==
  Init /\ [][NextWatcher]_vars /\ \A k \in Searches : WF_vars(WatcherExits(k))

\* the record store: local handlers and the background save
NextStore ==
  \/ Main
  \/ \E q \in Queries : performSearch(q)
  \/ \E title \in DialogTitles, company \in DialogCompanies :
       AddVacancy(title, company)
  \/ \E idx \in 1..MaxStore, title \in EditTitles, company \in EditCompanies :
       EditVacancy(idx, title, company)
  \/ \E idx \in 1..MaxStore : confirmDeleteVacancy(idx)
  \/ \E q \in Queries : SaveAndRefresh(q)
  \/ \E idx \in 1..MaxStore, newStatus \in DetailStatuses, q \in Queries :
       saveVacancyDetails(idx, newStatus, q)
  \/ DeliverMsgBox
  \/ SaverLock
  \/ SaverUnlock
  \/ \E col \in 0..2 : SortColumn(col)

SpecStore == Init /\ [][NextStore]_vars

\* ------------------------------------------------------------------------
\* The local view alone: filter and sort over what vacancies.json may hold
\* ------------------------------------------------------------------------
\* records in vacancies.json
MaxViewLen == 2

StrUpB == <<66>>
StrY == <<121>>
StrXA == <<120, 97>>
StrBA == <<98, 97>>
\* a lower-case first letter of possibleStatuses[1], as typed or as stored
StrLowStatus == <<1085>>

\* the file is edited by hand as well: a status in lower case, a status that
\* only begins like an enumerated one, an experience level in lower case
VUpA ==
  [ Vacancy(StrUpA, StrB, StrLowStatus) EXCEPT
      !.ExperienceLevel = possibleExperienceLevels[2] ]
VKw ==
  [ Vacancy(StrX, StrY, <<1053, 1077>>) EXCEPT
      !.Keywords = << StrUpB, StrXA >> ]
VDesc ==
  [ Vacancy(StrY, StrY, possibleStatuses[2]) EXCEPT
      !.Description = StrBA, !.ExperienceLevel = <<1073>> ]

ViewRecords == { VA, VB, VUpA, VKw, VDesc }

\* the stores loadVacancies can leave: every order of distinct records
ViewStores ==
  UNION { { st \in [1..n -> ViewRecords] :
              \A i, j \in 1..n : i # j => st[i] # st[j] } : n \in 0..MaxViewLen }

\* text typed into searchEdit for the local search
ViewTerms == { StrEmpty, StrUpA, StrLowStatus }

\* the search widgets: a free-text selector with a text, the status selector
\* with an entry of statusFilterCB, the experience selector with an entry of
\* experienceFilterCB
ViewQueries ==
  { Query(idx, text, possibleStatuses[1], possibleExperienceLevels[1]) :
      idx \in 0..4, text \in ViewTerms }
  \cup { Query(5, StrEmpty, possibleStatuses[i], possibleExperienceLevels[1]) :
           i \in 1..Len(possibleStatuses) }
  \cup { Query(6, StrEmpty, possibleStatuses[1], possibleExperienceLevels[i]) :
           i \in 1..Len(possibleExperienceLevels) }

InitView ==
  /\ allVacancies \in ViewStores
  /\ mutex = "free"
  /\ savers = 0
  /\ lastAccess = [ op |-> "any", locked |-> TRUE, holder |-> "free" ]
  /\ vacancyModel = InitialModel
  /\ onlineItems = <<>>
  /\ onlineResultsLabel = [ text |-> "results", n |-> 0 ]
  /\ ui = InitUI
  /\ uiPc = [ pc |-> "startup", idx |-> 0 ]
  /\ msgBox = "none"
  /\ nSearch = 0
  /\ cancelChan = [ k \in Searches |-> "none" ]
  /\ closePanic = FALSE
  /\ ctxDone = [ k \in Searches |-> FALSE ]
  /\ task = [ k \in Searches |-> IdleTask ]
  /\ syncQueue = <<>>
  /\ outcome = [ k \in Searches |-> "none" ]

NextView ==
  \/ Main
  \/ \E q \in ViewQueries : performSearch(q)
  \/ \E col \in 0..2 : SortColumn(col)

SpecView == InitView /\ [][NextView]_vars

\* VacancyModel.Sort(col, order) called with any column index and order, as
\* the method allows; the table of the window has the columns 0..2
SortColumns == { -1, 0, 1, 2, 3 }

VacancyModelSort(col, order) ==
  /\ msgBox' = "none"
  /\ uiPc.pc = "idle"
  /\ LET sorted == Sort(vacancyModel.items, col, order)
     IN /\ vacancyModel' = [vacancyModel EXCEPT !.items = sorted,
                              !.sortColumn = col, !.sortOrder = order,
                              !.by = "Sort"]
        /\ IF vacancyModel.shared
           THEN /\ allVacancies' = sorted
                /\ lastAccess' = Unlocked("Sort")
           ELSE UNCHANGED << allVacancies, lastAccess >>
  /\ UNCHANGED << mutex, savers, onlineItems, uiPc >>
  /\ StoreFrame

NextSort ==
  \/ Main
  \/ \E col \in SortColumns, order \in { SortAscending, SortDescending } :
       VacancyModelSort(col, order)

SpecSort == InitView /\ [][NextSort]_vars

\* the online search next to the details panel's save and its background
\* saveVacancies: the lock is taken by other goroutines while a search runs
NextLock ==
  \/ Main
  \/ \E term \in Terms : switchToOnlineSearchMode(term, MaxFairSearches)
  \/ cancelClicked
  \/ \E q \in OnlineQueries : backClicked(q)
  \/ \E k \in Searches : ClientStep(k)
  \/ \E k \in Searches : Handoff(k)
  \/ DeliverCancelled
  \/ DeliverOutcome
  \/ \E idx \in 1..MaxStore, q \in OnlineQueries :
       saveVacancyDetails(idx, possibleStatuses[2], q)
  \/ DeliverMsgBox
  \/ SaverLock
  \/ SaverUnlock

SpecLock == Init /\ [][NextLock]_vars

\* Adding records by the dialog, from the add button and from the online
\* result list.  The service answers every search with two jobs whose titles
\* differ in case only: the deduplication compares with the store, not within
\* the list, and both reach the online table.
JobUpB == Job(StrUpB, StrX, StrURL)

AddBodies == { Body(TRUE, FALSE, <<JobB, JobUpB>>) }

NextAdd ==
  \/ Main
  \/ \E title \in DialogTitles, company \in DialogCompanies :
       AddVacancy(title, company)
  \/ \E term \in Terms : switchToOnlineSearchMode(term, MaxFairSearches)
  \/ \E k \in Searches : DoResponds(k)
  \/ \E k \in Searches, body \in AddBodies : ReadAllReturns(k, StatusOK, body)
  \/ \E k \in Searches : MapLoopStep(k)
  \/ \E k \in Searches : Handoff(k)
  \/ DeliverOutcome
  \/ \E idx \in 1..MaxStore : AddOnlineVacancy(idx)
  \/ \E q \in OnlineQueries : SaveAndRefresh(q)
  \/ \E q \in OnlineQueries : backClicked(q)

SpecAdd == Init /\ [][NextAdd]_vars

\* The operations that take allVacanciesMutex, applied to any table and any
\* store: the window is up, and the rows of the table are drawn apart from
\* the store, so that saveVacancyDetails also meets a row whose record the
\* store does not hold (the program's own operations refresh the table after
\* every change of the store and do not lead there).
SortedStores == { Sort(st, 0, SortAscending) : st \in InitialStores }

InitRelease ==
  /\ allVacancies \in SortedStores
  /\ mutex = "free"
  /\ savers = 0
  /\ lastAccess = [ op |-> "any", locked |-> TRUE, holder |-> "free" ]
  /\ vacancyModel \in { [InitialModel EXCEPT !.items = rows] : rows \in SortedStores }
  /\ onlineItems = <<>>
  /\ onlineResultsLabel = [ text |-> "results", n |-> 0 ]
  /\ ui = InitUI
  /\ uiPc = Idle
  /\ msgBox = "none"
  /\ nSearch = 0
  /\ cancelChan = [ k \in Searches |-> "none" ]
  /\ closePanic = FALSE
  /\ ctxDone = [ k \in Searches |-> FALSE ]
  /\ task = [ k \in Searches |-> IdleTask ]
  /\ syncQueue = <<>>
  /\ outcome = [ k \in Searches |-> "none" ]

NextRelease ==
  \/ \E q \in OnlineQueries : performSearch(q)
  \/ \E term \in Terms : switchToOnlineSearchMode(term, MaxFairSearches)
  \/ cancelClicked
  \/ \E q \in OnlineQueries : backClicked(q)
  \/ \E k \in Searches : ClientStep(k)
  \/ \E k \in Searches : Handoff(k)
  \/ DeliverCancelled
  \/ DeliverOutcome
  \/ \E idx \in 1..MaxStore, q \in OnlineQueries :
       saveVacancyDetails(idx, possibleStatuses[2], q)
  \/ DeliverMsgBox
  \/ SaverLock
  \/ SaverUnlock

SpecRelease == InitRelease /\ [][NextRelease]_vars

\* the goroutine of "go saveVacancies()" runs on to its deferred Unlock
FairRelease == SpecRelease /\ WF_vars(SaverUnlock)

\* ------------------------------------------------------------------------
\* Properties
\* ------------------------------------------------------------------------
\* (outcome[k] = "none" /\ outcome'[k] # "none" singles out the step in which
\* the foreground applies the outcome of invocation k)

\* C1: an invocation whose Cancellation Signal is closed before its outcome is
\* applied on the foreground is delivered as Cancelled and never as Failed,
\* and no error dialog is shown for it.
C1_ClosedSignalNeverFailed ==
  [][ \A k \in Searches :
        (cancelChan[k] = "closed" /\ outcome[k] = "none" /\ outcome'[k] # "none")
          => (outcome'[k] = "Cancelled" /\ msgBox' # "searchError") ]_vars

\* C2: when the signal is closed after the network call succeeded and before
\* the outcome is applied, the invocation surfaces as Cancelled: the status is a
\* cancellation text, never "found N", and no record of the invocation enters
\* the online result list, for any number of returned records.
C2_CancelAfterSuccess ==
  [][ \A k \in Searches :
        (/\ cancelChan[k] = "closed"
         /\ outcome[k] = "none" /\ outcome'[k] # "none"
         /\ syncQueue # <<>>
         /\ (Head(syncQueue).fn = "cancelled" \/ Head(syncQueue).err = "nil"))
          => /\ outcome'[k] = "Cancelled"
             /\ onlineResultsLabel'.text \in { "cancelled", "cancelledInFilter" }
             /\ (onlineItems' = onlineItems \/ onlineItems' = <<>>) ]_vars

\* the deduplication loop has found the signal closed with records at hand
C2_Witness ==
  \E k \in Searches :
    /\ outcome[k] = "Cancelled"
    /\ cancelChan[k] = "closed"
    /\ onlineResultsLabel.text = "cancelledInFilter"

\* C3: the delivery of a task that was still running when a newer search was
\* started leaves the result list, the status label, the visibility of the
\* cancel button and the enabled state of the search buttons of the newer
\* search as they are.
C3_StaleOutcomeIgnored ==
  [][ (/\ syncQueue # <<>>
       /\ syncQueue' = Tail(syncQueue)
       /\ Head(syncQueue).k \in Searches
       /\ Head(syncQueue).latest > Head(syncQueue).k
       /\ outcome[nSearch] = "none")
        => /\ onlineItems' = onlineItems
           /\ onlineResultsLabel' = onlineResultsLabel
           /\ ui'.cancelVisible = ui.cancelVisible
           /\ ui'.searchEnabled = ui.searchEnabled
           /\ ui'.onlineSearchEnabled = ui.onlineSearchEnabled ]_vars

\* C4: at any moment at most one search task is in flight whose Cancellation
\* Signal has not been closed.
C4_OneOpenSignalInFlight ==
  Cardinality({ k \in InFlight : cancelChan[k] = "open" }) <= 1

C6_CancelInterruptsWait ==
  \A k \in Searches :
    (cancelChan[k] = "closed" /\ task[k].pc \in { "Do", "ReadAll" })
      ~> (outcome[k] = "Cancelled")

\* io.ReadAll was interrupted by the request context and the client returned
C6_Witness ==
  \E k \in Searches :
    /\ cancelChan[k] = "closed"
    /\ task[k].pc = "Returned"
    /\ task[k].err = "contextCanceled"

\* C7: no click closes a channel that is closed, a closed channel stays
\* closed, and after a click on cancel or on back the channel of every
\* attached handler is closed.
C7_CloseIdempotent ==
  [][ /\ ~closePanic'
      /\ \A k \in Searches : cancelChan[k] = "closed" => cancelChan'[k] = "closed"
      /\ ((ui.cancelEnabled /\ ~ui'.cancelEnabled) \/ (~ui.localVisible /\ ui'.localVisible))
           => \A k \in 1..nSearch : cancelChan'[k] = "closed" ]_vars

\* cancel, then back, with the handlers of two invocations attached
C7_Witness ==
  /\ nSearch = 2
  /\ cancelChan[1] = "closed" /\ cancelChan[2] = "closed"
  /\ ui.cancelText = "cancelling"
  /\ ui.localVisible
  /\ ~closePanic

\* C8: no two records of the Record Store have the same case-insensitive
\* (title, company) pair.
C8_UniqueIdentityKeys ==
  \A i, j \in 1..Len(allVacancies) :
    i # j => ~SameKey(allVacancies[i], allVacancies[j])

\* C9: the Results list delivered for a search is the sequence of
\* client-returned records that match no record of the Record Store
\* case-insensitively on title and company, in the client's order.
C9_ResultsAreNewRecords ==
  [][ \A k \in Searches :
        (outcome[k] = "none" /\ outcome'[k] = "Results")
          => onlineItems' =
               SelectSeq(Head(syncQueue).vacancies,
                         LAMBDA v : \A i \in 1..Len(allVacancies) :
                                      ~(/\ ToLower(v.Title) = ToLower(allVacancies[i].Title)
                                        /\ ToLower(v.Company) = ToLower(allVacancies[i].Company))) ]_vars

\* one of two returned records was dropped as known, the other was published
C9_Witness ==
  \E k \in Searches :
    /\ outcome[k] = "Results"
    /\ onlineResultsLabel = [ text |-> "found", n |-> 1 ]
    /\ Len(onlineItems) = 1
    /\ \E i \in 1..Len(allVacancies) : allVacancies[i].Title = StrA

\* C10: every read and every write of allVacancies is made while holding
\* allVacanciesMutex, so that none interleaves with another one; stated in its
\* weakest reading: no access is made without the lock while another goroutine
\* holds the lock.
C10_NoAccessBesideLockHolder == lastAccess.locked \/ lastAccess.holder = "free"

\* the step in which the foreground runs the deduplication of invocation k
DedupStep(k) ==
  /\ syncQueue # <<>>
  /\ Head(syncQueue).k = k
  /\ Head(syncQueue).fn = "outcome"
  /\ Head(syncQueue).err = "nil"
  /\ syncQueue' = Tail(syncQueue)

\* C11: the search task never holds allVacanciesMutex while it sends the
\* request, waits for the response or reads the body: no step of the search
\* goroutine or of its client takes or releases the lock or touches the store,
\* and the lock is taken for invocation k only in the deduplication, which runs
\* after the goroutine of k has finished and which leaves the lock free.
C11_NoLockAcrossNetwork ==
  [][ \A k \in Searches :
        /\ (task'[k] # task[k] \/ ctxDone'[k] # ctxDone[k])
             => (mutex' = mutex /\ lastAccess' = lastAccess
                                /\ allVacancies' = allVacancies)
        /\ DedupStep(k)
             => (task[k].pc = "Done" /\ mutex = "free" /\ mutex' = "free") ]_vars

\* the body is being read while a background save holds the lock
C11_Witness ==
  \E k \in Searches : task[k].pc = "ReadAll" /\ mutex = "saver"

\* C12: an online search with an empty term is rejected in the handler: the
\* step that brings up the "enter a search text" box starts no goroutine, creates
\* or replaces no channel, attaches no handler (the handlers are those of
\* invocations 1..nSearch) and leaves view mode, result list, status label and
\* buttons as they are; and every goroutine or channel that comes into being
\* belongs to an invocation with a non-empty term.
C12_EmptyTermRejected ==
  [][ /\ (msgBox # "enterSearchText" /\ msgBox' = "enterSearchText")
           => UNCHANGED << nSearch, cancelChan, closePanic, ctxDone, task,
                           syncQueue, outcome, ui, onlineItems,
                           onlineResultsLabel, vacancyModel, allVacancies >>
      /\ \A k \in Searches :
           ((task[k].pc = "none" /\ task'[k].pc # "none")
              \/ (cancelChan[k] = "none" /\ cancelChan'[k] # "none")
              \/ nSearch' # nSearch)
             => task'[nSearch'].term # StrEmpty ]_vars

\* an empty term was rejected while the goroutine of an earlier search, left
\* by the back button, is still waiting for the response
C12_Witness ==
  /\ msgBox = "enterSearchText"
  /\ nSearch = 1
  /\ cancelChan[1] = "closed"
  /\ task[1].pc = "Do"
  /\ ui.localVisible

\* C13: every accepted invocation makes a channel that did not exist before,
\* open, and leaves the channels of the earlier invocations as they are; a
\* channel is never closed twice, and once made or closed it stays so; the
\* goroutine of invocation k, its client and its watcher take their
\* cancellation branches by the state of channel k alone.
C13_FreshSignalPerInvocation ==
  [][ /\ nSearch' # nSearch
           => /\ nSearch' = nSearch + 1
              /\ cancelChan[nSearch'] = "none"
              /\ cancelChan'[nSearch'] = "open"
              /\ \A j \in Searches \ { nSearch' } : cancelChan'[j] = cancelChan[j]
      /\ ~closePanic'
      /\ \A k \in Searches :
           /\ cancelChan[k] = "closed" => cancelChan'[k] = "closed"
           /\ cancelChan[k] = "open" => cancelChan'[k] # "none"
           /\ (task[k].pc = "Returned" /\ task'[k].pc = "Done")
                => LET cb == syncQueue'[Len(syncQueue')]
                   IN /\ cb.k = k
                      /\ (cb.fn = "cancelled") <=> (cancelChan[k] = "closed")
           /\ (task[k].pc # "Returned" /\ task'[k].pc = "Returned"
                                        /\ task'[k].err = "cancelled")
                => cancelChan[k] = "closed"
           /\ (~ctxDone[k] /\ ctxDone'[k] /\ task'[k] = task[k])
                => cancelChan[k] = "closed" ]_vars

\* the second invocation has delivered results with its channel open, after
\* the channel of the first one was closed
C13_Witness ==
  /\ cancelChan[1] = "closed"
  /\ cancelChan[2] = "open"
  /\ outcome[2] = "Results"

\* C14: no step of a background goroutine (the search goroutine, its client,
\* its watcher) changes the result list, the status label, the buttons or the
\* message box; the outcome of invocation k is applied only in a step in which
\* the foreground, being in its message loop, takes the callback of k from the
\* head of the Synchronize queue.
C14_PresentationOnlyOnForeground ==
  [][ /\ ((nSearch' = nSearch /\ task' # task) \/ ctxDone' # ctxDone)
           => UNCHANGED << onlineItems, onlineResultsLabel, ui, msgBox,
                           vacancyModel, outcome >>
      /\ \A k \in Searches :
           outcome'[k] # outcome[k]
             => /\ uiPc.pc = "idle"
                /\ syncQueue # <<>>
                /\ Head(syncQueue).k = k
                /\ syncQueue' = Tail(syncQueue)
                /\ task' = task /\ ctxDone' = ctxDone ]_vars

\* a failed search has been reported by its callback: error label and box
C14_Witness ==
  \E k \in Searches :
    /\ task[k].pc = "Done"
    /\ outcome[k] = "Failed"
    /\ onlineResultsLabel.text = "error"
    /\ msgBox = "searchError"

\* the key Sort compares for a column, in lower case
SortKey(v, col) ==
  ToLower(CASE col = 1 -> v.Company [] col = 2 -> v.Status [] OTHER -> v.Title)

\* the records with the key of v, in their order in items
WithKeyOf(items, v, col) ==
  SelectSeq(items, LAMBDA w : SortKey(w, col) = SortKey(v, col))

\* a step that sorted the table: a click on a column header, or the first
\* Sort of main()
SortedFrom ==
  IF vacancyModel'.by = "NewVacancyModel" THEN allVacancies ELSE vacancyModel.items

SortStep ==
  /\ vacancyModel' # vacancyModel
  /\ vacancyModel'.by \in { "Sort", "NewVacancyModel" }

\* C15: Sort keeps ties stable in both orders: after a Sort by any column,
\* ascending or descending, the records of equal case-insensitive key are in
\* the same relative order as before it.
C15_SortKeepsTies ==
  [][ SortStep
        => \A i \in 1..Len(SortedFrom) :
             WithKeyOf(vacancyModel'.items, SortedFrom[i], vacancyModel'.sortColumn)
               = WithKeyOf(SortedFrom, SortedFrom[i], vacancyModel'.sortColumn) ]_vars

\* a query that takes the return-everything branch of performSearch
Unfiltered(q) ==
  /\ SearchTerm(q) = StrEmpty
  /\ SearchInField(q) \notin { "status", "experience" }

\* C16: Sort is idempotent.  While the table shares its slice with the store,
\* the store is the output of the latest Sort; a performSearch that filters
\* nothing then applies Sort with the same column and order to that sorted
\* list, and must leave the sequence as it was, ties included.
C16_SortIdempotent ==
  [][ (/\ vacancyModel.shared
       /\ vacancyModel'.by = "performSearch"
       /\ Unfiltered(vacancyModel'.query))
        => vacancyModel'.items = vacancyModel.items ]_vars

\* the view of the latest performSearch, which read the store as it is now
ViewOfSearch == vacancyModel.by = "performSearch"

\* the same records, each as often
SameRecords(a, b) ==
  /\ Len(a) = Len(b)
  /\ \A i \in 1..Len(b) :
       Len(SelectSeq(a, LAMBDA w : w = b[i])) = Len(SelectSeq(b, LAMBDA w : w = b[i]))

\* no record stands before one that the column and order put before it
InSortOrder(items, col, order) ==
  \A i \in 1..(Len(items) - 1) :
    IF order = SortDescending
    THEN ~StrLess(SortKey(items[i], col), SortKey(items[i + 1], col))
    ELSE ~StrLess(SortKey(items[i + 1], col), SortKey(items[i], col))

\* C17 as stated: for a non-empty snapshot, performSearch with an empty query
\* string and a free-text selector yields a view equal to the snapshot in
\* content and in order.
C17_EmptyQueryReturnsSnapshot ==
  (ViewOfSearch /\ Unfiltered(vacancyModel.query) /\ allVacancies # <<>>)
    => vacancyModel.items = allVacancies

\* C17 as amended: for a non-empty snapshot, performSearch with an empty query
\* string and a free-text selector yields a view with exactly the records of
\* the snapshot, arranged by the table's current sort column and order.
C17_EmptyQueryKeepsContent ==
  (ViewOfSearch /\ Unfiltered(vacancyModel.query) /\ allVacancies # <<>>)
    => /\ SameRecords(vacancyModel.items, allVacancies)
       /\ InSortOrder(vacancyModel.items, vacancyModel.sortColumn,
                      vacancyModel.sortOrder)

\* the keywords selector with an empty text has returned both records of the
\* store, in ascending order of a column the store is not ordered by
C17_Witness ==
  /\ ViewOfSearch
  /\ vacancyModel.query.fieldIndex = 4
  /\ vacancyModel.query.searchEdit = StrEmpty
  /\ vacancyModel.sortOrder = SortAscending
  /\ Len(allVacancies) = 2
  /\ Len(vacancyModel.items) = 2
  /\ vacancyModel.items # allVacancies

\* C18: with the status selector and the entry S of statusFilterCB the view
\* holds exactly the records of the snapshot whose status equals S without
\* regard to case, and with the experience selector exactly those whose
\* experience level equals the entry of experienceFilterCB; this holds for
\* every enumerated value, the first one included (no return-everything
\* branch).
C18_StatusSelectorExact ==
  /\ (ViewOfSearch /\ SearchInField(vacancyModel.query) = "status")
       => SameRecords(vacancyModel.items,
            SelectSeq(allVacancies,
              LAMBDA v : ToLower(v.Status)
                           = ToLower(vacancyModel.query.statusFilterCB)))
  /\ (ViewOfSearch /\ SearchInField(vacancyModel.query) = "experience")
       => SameRecords(vacancyModel.items,
            SelectSeq(allVacancies,
              LAMBDA v : ToLower(v.ExperienceLevel)
                           = ToLower(vacancyModel.query.experienceFilterCB)))

\* the first status was selected: the record with that status in lower case
\* is in the view, the record whose status only begins like it is not
C18_Witness ==
  /\ ViewOfSearch
  /\ SearchInField(vacancyModel.query) = "status"
  /\ vacancyModel.query.statusFilterCB = possibleStatuses[1]
  /\ vacancyModel.items = << VUpA >>
  /\ \E i \in 1..Len(allVacancies) : allVacancies[i] = VKw

\* t occurs in s without regard to case: some stretch of s equals t when both
\* are put in lower case
ContainsFold(s, t) ==
  \E i \in 1..(Len(s) - Len(t) + 1) :
    ToLower(SubSeq(s, i, i + Len(t) - 1)) = ToLower(t)

\* what C19 says a record must satisfy for the selector sel and the term t
Selects(sel, v, t) ==
  CASE sel = "title" -> ContainsFold(v.Title, t)
    [] sel = "company" -> ContainsFold(v.Company, t)
    [] sel = "description" -> ContainsFold(v.Description, t)
    [] sel = "keywords" -> \E j \in 1..Len(v.Keywords) : ContainsFold(v.Keywords[j], t)
    [] sel = "everywhere" ->
         \/ ContainsFold(v.Title, t) \/ ContainsFold(v.Company, t)
         \/ ContainsFold(v.Description, t) \/ ContainsFold(v.Status, t)
         \/ ContainsFold(v.ExperienceLevel, t)
         \/ \E j \in 1..Len(v.Keywords) : ContainsFold(v.Keywords[j], t)

\* C19: for a non-empty term the view of the selectors title, company and
\* description holds exactly the records whose field contains the term without
\* regard to case; that of the keywords selector exactly the records one of
\* whose keywords contains it; that of the everywhere selector exactly the
\* records in which title, company, description, status, experience level or
\* a keyword contains it.
C19_SubstringSelectors ==
  (/\ ViewOfSearch
   /\ SearchInField(vacancyModel.query)
        \in { "title", "company", "description", "keywords", "everywhere" }
   /\ vacancyModel.query.searchEdit # StrEmpty)
    => SameRecords(vacancyModel.items,
         SelectSeq(allVacancies,
           LAMBDA v : Selects(SearchInField(vacancyModel.query), v,
                              vacancyModel.query.searchEdit)))

\* "everywhere" with the term "A" has found one record by a keyword alone and
\* one by its description alone
C19_Witness ==
  /\ ViewOfSearch
  /\ SearchInField(vacancyModel.query) = "everywhere"
  /\ vacancyModel.query.searchEdit = StrUpA
  /\ SameRecords(vacancyModel.items, << VKw, VDesc >>)

\* the records of the snapshot that the query of the view selects, in the
\* order of the snapshot
Selected ==
  SelectSeq(allVacancies,
    LAMBDA v : \/ Unfiltered(vacancyModel.query)
               \/ Found(v, SearchInField(vacancyModel.query),
                        SearchTerm(vacancyModel.query)))

C21_ViewNeverMutatesStore ==
  [][ allVacancies' = allVacancies ]_vars

\* the step in which the client of invocation k leaves its mapping loop
MapLoopEnds(k) == task[k].pc = "MapLoop" /\ task'[k].pc = "Returned"

\* C22: when the client returns from its mapping loop with the signal open it
\* returns no error, and its records are the upstream jobs that have a title
\* and a link, in upstream order, each with title, company, snippet and link
\* taken over, the first enumerated status, the first enumerated experience
\* level, no keywords and empty notes.
C22_MappingSkipsIncompleteJobs ==
  [][ \A k \in Searches :
        (MapLoopEnds(k) /\ cancelChan[k] = "open")
          => LET kept == SelectSeq(task[k].jobs,
                           LAMBDA job : job.Title # StrEmpty /\ job.Link # StrEmpty)
                 vs == task'[k].vacancies
             IN /\ task'[k].err = "nil"
                /\ Len(vs) = Len(kept)
                /\ \A i \in 1..Len(kept) :
                     /\ vs[i].Title = kept[i].Title
                     /\ vs[i].Company = kept[i].Company
                     /\ vs[i].Description = kept[i].Snippet
                     /\ vs[i].SourceURL = kept[i].Link
                     /\ vs[i].Status = possibleStatuses[1]
                     /\ vs[i].ExperienceLevel = possibleExperienceLevels[1]
                     /\ vs[i].Keywords = <<>>
                     /\ vs[i].Notes = StrEmpty ]_vars

\* the client has returned the one valid job of a response whose first job
\* has no link
C22_Witness ==
  \E k \in Searches :
    /\ task[k].pc = "Returned"
    /\ task[k].err = "nil"
    /\ Len(task[k].vacancies) = 1
    /\ task[k].vacancies[1].Title = StrB

\* the foreground takes the callback cb of a search off its queue
Delivers(cb) ==
  /\ cb = Head(syncQueue)
  /\ cb.fn \in { "cancelled", "outcome" }
  /\ syncQueue' = Tail(syncQueue)

C24_OneRequestPerInvocation ==
  \A k \in Searches :
    /\ task[k].sent <= 1
    /\ task[k].err # "nil" => task[k].pc = "Returned"

\* a client has returned a transport or protocol error after its one request
C24_Witness ==
  \E k \in Searches :
    /\ task[k].pc = "Returned"
    /\ task[k].err = "failed"
    /\ task[k].resp = "none"
    /\ task[k].sent = 1

\* the column whose key a Sort by col compares
KeyColumn(col) == IF col \in 0..2 THEN col ELSE 0

\* C25: after a Sort by any column index and order the list holds the records
\* it held before, each as often, and no record stands before one with a
\* smaller (ascending) or greater (descending) case-insensitive key of the
\* column; an index outside 0..2 orders by the title.
C25_SortOrdersByKey ==
  [][ SortStep
        => /\ SameRecords(vacancyModel'.items, SortedFrom)
           /\ InSortOrder(vacancyModel'.items,
                          KeyColumn(vacancyModel'.sortColumn),
                          vacancyModel'.sortOrder) ]_vars

\* a descending Sort by a column index outside 0..2 has put a record with
\* lower-case title "a" behind the record with title "b"
C25_Witness ==
  /\ vacancyModel.by = "Sort"
  /\ vacancyModel.sortColumn = 3
  /\ vacancyModel.sortOrder = SortDescending
  /\ Len(vacancyModel.items) = 2
  /\ vacancyModel.items[1].Title = StrB
  /\ ToLower(vacancyModel.items[2].Title) = StrA

\* the client of invocation k comes out of a blocking step or goes round its
\* mapping loop
ClientMoves(k) ==
  /\ task[k].pc \in { "Do", "ReadAll", "MapLoop" }
  /\ task'[k] # task[k]

\* C26: a client that comes out of the exchange or of the body read, or that
\* is about to map a job, while its signal is closed returns an error and no
\* records; and a deduplication loop that has a record to look at while the
\* signal is closed ends the invocation as Cancelled and leaves the online
\* result list as it was.
C26_CheckpointsStopWork ==
  [][ /\ \A k \in Searches :
           (ClientMoves(k) /\ cancelChan[k] = "closed")
             => /\ task'[k].pc = "Returned"
                /\ task'[k].err # "nil"
                /\ task'[k].vacancies = <<>>
      /\ syncQueue # <<>> =>
           LET cb == Head(syncQueue)
           IN (/\ Delivers(cb)
               /\ cb.fn = "outcome"
               /\ cb.err = "nil"
               /\ cb.vacancies # <<>>
               /\ cancelChan[cb.k] = "closed")
                => /\ onlineItems' = onlineItems
                   /\ outcome'[cb.k] = "Cancelled" ]_vars

\* a client in its mapping loop whose signal has been closed
C26_Witness ==
  \E k \in Searches :
    /\ task[k].pc = "MapLoop"
    /\ task[k].i = 2
    /\ cancelChan[k] = "closed"

C28_WatcherTerminates ==
  \A k \in Searches :
    (task[k].pc \in { "Returned", "Done" }) ~> (task[k].watcher = "exited")

\* a watcher has exited although the signal of its invocation is open
C28_Witness ==
  \E k \in Searches :
    /\ task[k].watcher = "exited"
    /\ cancelChan[k] = "open"

\* what the accept button of the add dialog is to do with the store for the
\* title and company it reads: nothing when the trimmed title is empty or a
\* record has the same title and company up to case, else one record with
\* them after all the others
AddsOrRefuses(title, company) ==
  LET t == TrimSpace(title)
      c == TrimSpace(company)
      n == Len(allVacancies)
      same == \E i \in 1..n :
                /\ ToLower(allVacancies[i].Title) = ToLower(t)
                /\ ToLower(allVacancies[i].Company) = ToLower(c)
  IN IF t = StrEmpty \/ same
     THEN allVacancies' = allVacancies
     ELSE /\ Len(allVacancies') = n + 1
          /\ SubSeq(allVacancies', 1, n) = allVacancies
          /\ allVacancies'[n + 1].Title = t
          /\ allVacancies'[n + 1].Company = c

\* C29: an add from the add button or from the online result list leaves the
\* store as it is when the title is empty or when a record with the same
\* title and company up to case exists, and otherwise appends exactly one
\* record, with that title and company, at the end.
C29_AddRefusesDuplicates ==
  [][ /\ \A title \in DialogTitles, company \in DialogCompanies :
           AddVacancy(title, company) => AddsOrRefuses(title, company)
      /\ \A idx \in 1..Len(onlineItems) :
           AddOnlineVacancy(idx)
             => AddsOrRefuses(onlineItems[idx].Title, onlineItems[idx].Company)
    ]_vars

\* the online list still offers title "B" after "b" was added from it, and
\* the add of "B" has been refused
C29_Witness ==
  /\ msgBox = "alreadyExists"
  /\ ~ui.localVisible
  /\ \E i \in 1..Len(onlineItems) : onlineItems[i].Title = StrUpB
  /\ \E i \in 1..Len(allVacancies) : allVacancies[i].Title = StrB
  /\ \A i \in 1..Len(allVacancies) : allVacancies[i].Title # StrUpB

\* C30: an invocation that ends as Cancelled or Failed does not write the
\* online result list: the callback that ends it so leaves the list as it
\* finds it.
C30_OnlyResultsWriteList ==
  [][ syncQueue # <<>> =>
        LET cb == Head(syncQueue)
        IN (Delivers(cb) /\ outcome'[cb.k] \in { "Cancelled", "Failed" })
             => onlineItems' = onlineItems ]_vars

====
